---- MODULE Spec2Model ----
(***************************************************************************)
(* Path-Planning: dijkstra (src/dijkstra.cpp) and aStarSearch              *)
(* (src/a_star.cpp) as state machines.  One call of each function is one   *)
(* behaviour: the initial state is the entry of the function with its      *)
(* arguments chosen, and each action is one step of its body.              *)
(*                                                                         *)
(* int values keep their 32 bits (AddInt).  The float costs of a_star.cpp  *)
(* are small whole numbers, exact in float, and are kept as integers;      *)
(* Node::hCost is read only by the statement after the one that sets it    *)
(* (fCost = gCost + hCost) and is folded into fCost.  openSet is the heap  *)
(* array of std::priority_queue with the sift-up and sift-down of          *)
(* std::push_heap and std::pop_heap, so that a key changed while its node  *)
(* is enqueued has the effect it has in the program.                       *)
(***************************************************************************)
EXTENDS Integers, Sequences, FiniteSets, TLC

VARIABLES
    \* ---- dijkstra(n, graph, source) ----
    n,          \* number of vertices
    graph,      \* adjacency list: graph[u] = sequence of <<v, weight>>
    source,     \* source vertex
    dist,       \* vector<int> dist; <<>> before it is constructed
    pq,         \* priority_queue of <<distance, vertex>>, smallest first
    du,         \* the vertex u whose edges are being relaxed
    dk,         \* index (1-based) of the next edge of graph[u] to relax
    dexp,       \* history: the vertices expanded so far, in order
    dstale,     \* history: the number of stale entries discarded so far
    dpc,        \* "idle" | "entry" | "loop" | "edges" | "done"
    \* ---- aStarSearch(grid, startRow, startCol, goalRow, goalCol) ----
    grid,       \* grid[<<r, c>>] = 0 walkable, 1 obstacle
    start,      \* <<startRow, startCol>>
    goal,       \* <<goalRow, goalCol>>
    gCost,      \* Node::gCost of allNodes[r][c]
    fCost,      \* Node::fCost of allNodes[r][c]
    parent,     \* Node::parent of allNodes[r][c], NULL for nullptr
    closedSet,  \* closedSet[<<r, c>>]
    openSet,    \* the heap array under the priority_queue of Node*
    current,    \* the node popped in this iteration
    ai,         \* index 0..3 of the next direction to explore
    path,       \* the returned vector
    popLog,     \* history: <<fCost of the popped node, least fCost left in openSet>> of the last pop,
                \* then the pops so far that left an entry of the same fCost, and of a closed node
    expanded,   \* history: number of neighbour expansions started
    apc         \* "idle" | "entry" | "loop" | "neighbors" | "done"

dvars == <<n, graph, source, dist, pq, du, dk, dexp, dstale, dpc>>
avars == <<grid, start, goal, gCost, fCost, parent, closedSet, openSet,
           current, ai, path, popLog, expanded, apc>>
vars == <<dvars, avars>>

(***************************************************************************)
(* Bounds of the model.                                                    *)
(***************************************************************************)
NumNodes == 3        \* vertices of the enumerated graphs
MaxEdges == 3        \* directed edges of the enumerated graphs
MaxExpand == 6       \* a run is cut after this many vertex expansions (negative cycles never end)
Rows == 3            \* grid rows
Cols == 7            \* grid columns

(***************************************************************************)
(* int arithmetic of dijkstra.cpp.                                         *)
(***************************************************************************)
INF == 2147483647
INT_MIN == -INF - 1

\* a + b in 32-bit two's complement (the sum the build computes for int + int)
AddInt(a, b) ==
    IF b > 0 /\ a > INF - b THEN (a - INF - 1) + (b - INF - 1)
    ELSE IF b < 0 /\ a < INT_MIN - b THEN (a + INF + 1) + (b + INF + 1)
    ELSE a + b

\* greater<pair<int,int>>: the queue is a min-heap on (distance, vertex)
PairLess(a, b) == a[1] < b[1] \/ (a[1] = b[1] /\ a[2] < b[2])

\* pq.push(e): pairs are values, so the queue is determined by its contents;
\* it is kept as the sequence in extraction order.
RECURSIVE PqPush(_, _)
PqPush(q, e) ==
    IF q = <<>> THEN <<e>>
    ELSE IF PairLess(e, Head(q)) THEN <<e>> \o q
    ELSE <<Head(q)>> \o PqPush(Tail(q), e)

\* mutant of RelaxEdge (breaks ExactWithoutOverflow and MonotoneWithoutOverflow):
\* only a vertex still at INF is ever given a distance
RelaxEdgeFirstFound(d, q, u, e) ==
    LET v == e[1]
        weight == e[2]
        cand == AddInt(d[u], weight)
    IN IF d[v] = INF /\ cand < d[v]
       THEN <<[d EXCEPT ![v] = cand], PqPush(q, <<cand, v>>)>>
       ELSE <<d, q>>

\* mutant of RelaxEdge: the entry pushed carries the distance v had before
RelaxEdgePushesOld(d, q, u, e) ==
    LET v == e[1]
        weight == e[2]
        cand == AddInt(d[u], weight)
    IN IF cand < d[v]
       THEN <<[d EXCEPT ![v] = cand], PqPush(q, <<d[v], v>>)>>
       ELSE <<d, q>>

\* mutant of RelaxEdge: an equal distance is taken for an improvement
RelaxEdgeOnEqual(d, q, u, e) ==
    LET v == e[1]
        weight == e[2]
        cand == AddInt(d[u], weight)
    IN IF cand <= d[v]
       THEN <<[d EXCEPT ![v] = cand], PqPush(q, <<cand, v>>)>>
       ELSE <<d, q>>

\* lines 55-62: relax one edge e = <<v, weight>> out of u
RelaxEdge(d, q, u, e) ==
    LET v == e[1]
        weight == e[2]
        cand == AddInt(d[u], weight)
    IN IF cand < d[v]
       THEN <<[d EXCEPT ![v] = cand], PqPush(q, <<cand, v>>)>>
       ELSE <<d, q>>

\* lines 54-63: the for loop over graph[u], from edge k on
RECURSIVE RelaxFrom(_, _, _, _, _)
RelaxFrom(d, q, u, edges, k) ==
    IF k > Len(edges) THEN <<d, q>>
    ELSE LET r == RelaxEdge(d, q, u, edges[k])
         IN RelaxFrom(r[1], r[2], u, edges, k + 1)

\* lines 43-64: the while loop, run to completion
RECURSIVE DijkstraLoop(_, _, _)
DijkstraLoop(g, d, q) ==
    IF q = <<>> THEN d
    ELSE LET currentDist == Head(q)[1]
             u == Head(q)[2]
         IN IF currentDist > d[u]
            THEN DijkstraLoop(g, d, Tail(q))
            ELSE LET r == RelaxFrom(d, Tail(q), u, g[u], 1)
                 IN DijkstraLoop(g, r[1], r[2])

\* lines 29-31: vector<int> dist(n, INF); dist[source] = 0
InitDist(nn, s) == [v \in 0..(nn - 1) |-> IF v = s THEN 0 ELSE INF]

\* lines 24-67: the whole function
dijkstra(nn, g, s) == DijkstraLoop(g, InitDist(nn, s), << <<0, s>> >>)

(***************************************************************************)
(* Arguments of dijkstra.                                                  *)
(***************************************************************************)
Weights == {-1, 0, 1, INF}
Nodes == 0..(NumNodes - 1)
EdgeLists == UNION {[1..m -> Nodes \X Nodes \X Weights] : m \in 0..MaxEdges}

\* main, lines 101-113 (directed variant, line 112): graph[u].push_back({v, w})
RECURSIVE BuildGraph(_, _)
BuildGraph(nn, es) ==
    IF es = <<>> THEN [u \in 0..(nn - 1) |-> <<>>]
    ELSE LET g == BuildGraph(nn, SubSeq(es, 1, Len(es) - 1))
             e == es[Len(es)]
         IN [g EXCEPT ![e[1]] = Append(@, <<e[2], e[3]>>)]

\* main, lines 83-91: the sample input, edges added both ways (lines 108-109)
SampleEdges == << <<0, 1, 4>>, <<0, 2, 2>>, <<1, 2, 3>>, <<1, 3, 2>>, <<2, 3, 4>>, <<3, 4, 1>> >>
RECURSIVE BothWays(_)
BothWays(es) ==
    IF es = <<>> THEN <<>>
    ELSE << Head(es), <<Head(es)[2], Head(es)[1], Head(es)[3]>> >> \o BothWays(Tail(es))
SampleGraph == BuildGraph(5, BothWays(SampleEdges))

NULL == <<-1, -1>>

AIdle ==
    /\ grid = <<>> /\ start = NULL /\ goal = NULL
    /\ gCost = <<>> /\ fCost = <<>> /\ parent = <<>> /\ closedSet = <<>>
    /\ openSet = <<>> /\ current = NULL /\ ai = 0 /\ path = <<>>
    /\ popLog = <<>> /\ expanded = 0 /\ apc = "idle"

DInit ==
    /\ \/ /\ n = NumNodes
          /\ \E es \in EdgeLists : graph = BuildGraph(NumNodes, es)
          /\ source \in Nodes
       \/ /\ n = 5
          /\ graph = SampleGraph
          /\ source = 0
    /\ dist = <<>> /\ pq = <<>> /\ du = -1 /\ dk = 0 /\ dexp = <<>> /\ dstale = 0
    /\ dpc = "entry"
    /\ AIdle

(***************************************************************************)
(* dijkstra, step by step.                                                 *)
(***************************************************************************)
\* lines 29-40: dist and pq are constructed, the source is pushed
DStart ==
    /\ dpc = "entry"
    /\ dist' = InitDist(n, source)
    /\ pq' = << <<0, source>> >>
    /\ dpc' = "loop"
    /\ UNCHANGED <<n, graph, source, du, dk, dexp, dstale, avars>>

\* mutant of DPopStale: the test of line 49 is ignored, the vertex of a stale
\* entry is expanded like any other
DPopStaleExpands ==
    /\ dpc = "loop" /\ pq # <<>>
    /\ Head(pq)[1] > dist[Head(pq)[2]]
    /\ pq' = Tail(pq)
    /\ du' = Head(pq)[2]
    /\ dk' = 1
    /\ dexp' = Append(dexp, Head(pq)[2])
    /\ dstale' = dstale + 1
    /\ dpc' = IF graph[Head(pq)[2]] = <<>> THEN "loop" ELSE "edges"
    /\ UNCHANGED <<n, graph, source, dist, avars>>

\* lines 43-51: an entry is extracted and found stale
DPopStale ==
    /\ dpc = "loop" /\ pq # <<>>
    /\ Head(pq)[1] > dist[Head(pq)[2]]
    /\ pq' = Tail(pq)
    /\ dstale' = dstale + 1
    /\ UNCHANGED <<n, graph, source, dist, du, dk, dexp, dpc, avars>>

\* lines 43-54: an entry is extracted and its vertex is expanded
DPopExpand ==
    /\ dpc = "loop" /\ pq # <<>>
    /\ ~(Head(pq)[1] > dist[Head(pq)[2]])
    /\ Len(dexp) < MaxExpand
    /\ pq' = Tail(pq)
    /\ du' = Head(pq)[2]
    /\ dk' = 1
    /\ dexp' = Append(dexp, Head(pq)[2])
    /\ dpc' = IF graph[Head(pq)[2]] = <<>> THEN "loop" ELSE "edges"
    /\ UNCHANGED <<n, graph, source, dist, dstale, avars>>

\* lines 54-63: one edge of graph[u] is relaxed
DRelaxEdge ==
    /\ dpc = "edges"
    /\ LET r == RelaxEdge(dist, pq, du, graph[du][dk])
       IN /\ dist' = r[1]
          /\ pq' = r[2]
    /\ dk' = dk + 1
    /\ dpc' = IF dk = Len(graph[du]) THEN "loop" ELSE "edges"
    /\ UNCHANGED <<n, graph, source, du, dexp, dstale, avars>>

\* lines 43, 66: the queue is empty, dist is returned
DReturn ==
    /\ dpc = "loop" /\ pq = <<>>
    /\ dpc' = "done"
    /\ UNCHANGED <<n, graph, source, dist, pq, du, dk, dexp, dstale, avars>>

DNext == DStart \/ DPopStale \/ DPopExpand \/ DRelaxEdge \/ DReturn

DijkstraSpec == DInit /\ [][DNext]_vars

\* dijkstra is one synchronous call: while a step of its body is possible, one is taken
DijkstraLive == DInit /\ [][DNext]_vars /\ WF_vars(DNext)

(***************************************************************************)
(* aStarSearch: the grid, the heap under openSet, the path.                *)
(***************************************************************************)
Cells == (0..(Rows - 1)) \X (0..(Cols - 1))

\* lines 36-39
Abs(x) == IF x < 0 THEN -x ELSE x
heuristicManhattan(row1, col1, row2, col2) == Abs(row1 - row2) + Abs(col1 - col2)

\* mutant of isValid: the first row is taken to be out of bounds
isValidFromRowOne(row, col, rows, cols) == row > 0 /\ row < rows /\ col >= 0 /\ col < cols

\* lines 41-44
isValid(row, col, rows, cols) == row >= 0 /\ row < rows /\ col >= 0 /\ col < cols

\* lines 76-77
dRow == <<-1, 1, 0, 0>>
dCol == <<0, 0, -1, 1>>

\* lines 30-34: CompareFCost on two Node*, reading the nodes' fCost as it is now
CompareFCost(f, a, b) == f[a] > f[b]

\* std::push_heap's sift-up: the hole at 0-based index `hole` moves up while the
\* parent compares after the value (line 130, openSet.push)
RECURSIVE PushHeap(_, _, _, _)
PushHeap(f, h, hole, value) ==
    IF hole > 0 /\ CompareFCost(f, h[((hole - 1) \div 2) + 1], value)
    THEN PushHeap(f, [h EXCEPT ![hole + 1] = h[((hole - 1) \div 2) + 1]],
                  (hole - 1) \div 2, value)
    ELSE [h EXCEPT ![hole + 1] = value]

\* openSet.push(node), lines 73 and 130
HeapPush(f, h, node) == PushHeap(f, Append(h, node), Len(h), node)

\* std::pop_heap's sift-down: the hole moves down to the child that compares first
RECURSIVE AdjustLoop(_, _, _, _)
AdjustLoop(f, h, hole, len) ==
    IF hole < (len - 1) \div 2
    THEN LET right == 2 * (hole + 1)
             child == IF CompareFCost(f, h[right + 1], h[right]) THEN right - 1 ELSE right
         IN AdjustLoop(f, [h EXCEPT ![hole + 1] = h[child + 1]], child, len)
    ELSE <<h, hole>>

\* std::__adjust_heap on the first len entries, the hole at the root
AdjustHeap(f, h, len, value) ==
    LET r == AdjustLoop(f, h, 0, len)
        h1 == r[1]
        hole1 == r[2]
        lone == len % 2 = 0 /\ len >= 2 /\ hole1 = (len - 2) \div 2
        h2 == IF lone THEN [h1 EXCEPT ![hole1 + 1] = h1[2 * (hole1 + 1)]] ELSE h1
        hole2 == IF lone THEN 2 * (hole1 + 1) - 1 ELSE hole1
    IN PushHeap(f, h2, hole2, value)

\* openSet.pop(), line 83: pop_heap, then pop_back
HeapPop(f, h) ==
    IF Len(h) <= 1 THEN <<>>
    ELSE SubSeq(AdjustHeap(f, h, Len(h) - 1, h[Len(h)]), 1, Len(h) - 1)

\* mutant of Backtrack: the walk stops at the node without a parent instead of after it
RECURSIVE BacktrackStopsEarly(_, _)
BacktrackStopsEarly(par, temp) ==
    IF par[temp] = NULL THEN <<>> ELSE <<temp>> \o BacktrackStopsEarly(par, par[temp])

\* mutant of Reverse: the path is left in goal -> start order
ReverseForgotten(s) == s

\* lines 96-102: follow parent from the goal, then reverse
RECURSIVE Backtrack(_, _)
Backtrack(par, temp) ==
    IF temp = NULL THEN <<>> ELSE <<temp>> \o Backtrack(par, par[temp])
Reverse(s) == [i \in 1..Len(s) |-> s[Len(s) + 1 - i]]

\* the least fCost among the entries of a heap array (history only)
MinF(f, h, dflt) ==
    IF h = <<>> THEN dflt
    ELSE CHOOSE m \in {f[h[i]] : i \in 1..Len(h)} : \A i \in 1..Len(h) : m <= f[h[i]]

(***************************************************************************)
(* Arguments of aStarSearch: the grids whose obstacles are among           *)
(* ObstacleChoices, every in-bounds start and goal.                        *)
(***************************************************************************)
ObstacleChoices == {<<0, 1>>, <<0, 6>>, <<1, 1>>, <<1, 4>>, <<1, 0>>}
GridOf(obstacles) == [c \in Cells |-> IF c \in obstacles THEN 1 ELSE 0]

DIdle ==
    /\ n = 0 /\ graph = <<>> /\ source = 0 /\ dist = <<>> /\ pq = <<>>
    /\ du = -1 /\ dk = 0 /\ dexp = <<>> /\ dstale = 0 /\ dpc = "idle"

AInit ==
    /\ \E obstacles \in SUBSET ObstacleChoices : grid = GridOf(obstacles)
    /\ start \in Cells
    /\ goal \in Cells
    /\ gCost = <<>> /\ fCost = <<>> /\ parent = <<>> /\ closedSet = <<>>
    /\ openSet = <<>> /\ current = NULL /\ ai = 0 /\ path = <<>>
    /\ popLog = <<>> /\ expanded = 0
    /\ apc = "entry"
    /\ DIdle

(***************************************************************************)
(* aStarSearch, step by step.                                              *)
(***************************************************************************)
\* lines 51-79: the nodes, closedSet and openSet are built, the start is pushed
AStart ==
    /\ apc = "entry"
    /\ gCost' = [c \in Cells |-> 0]
    /\ fCost' = [c \in Cells |->
                    IF c = start
                    THEN 0 + heuristicManhattan(start[1], start[2], goal[1], goal[2])
                    ELSE 0]
    /\ parent' = [c \in Cells |-> NULL]
    /\ closedSet' = [c \in Cells |-> FALSE]
    /\ openSet' = HeapPush(fCost', <<>>, start)
    /\ apc' = "loop"
    /\ UNCHANGED <<grid, start, goal, current, ai, path, popLog, expanded, dvars>>

\* lines 82-83: top and pop, with the record of what was popped
PopEffect ==
    /\ openSet' = HeapPop(fCost, openSet)
    /\ current' = openSet[1]
    /\ popLog' = <<fCost[openSet[1]],
                   MinF(fCost, openSet', fCost[openSet[1]]),
                   (IF popLog = <<>> THEN 0 ELSE popLog[3])
                       + (IF \E i \in 1..Len(openSet') : fCost[openSet'[i]] = fCost[openSet[1]]
                          THEN 1 ELSE 0),
                   (IF popLog = <<>> THEN 0 ELSE popLog[4])
                       + (IF closedSet[openSet[1]] THEN 1 ELSE 0)>>

\* mutant of APopSkip: the test of line 86 is ignored, the neighbours of a
\* closed node are explored again
APopSkipExpands ==
    /\ apc = "loop" /\ openSet # <<>>
    /\ closedSet[openSet[1]]
    /\ PopEffect
    /\ ai' = 0
    /\ apc' = "neighbors"
    /\ UNCHANGED <<grid, start, goal, gCost, fCost, parent, closedSet, path,
                   expanded, dvars>>

\* lines 81-87: the popped node is already closed
APopSkip ==
    /\ apc = "loop" /\ openSet # <<>>
    /\ closedSet[openSet[1]]
    /\ PopEffect
    /\ UNCHANGED <<grid, start, goal, gCost, fCost, parent, closedSet, ai, path,
                   expanded, apc, dvars>>

\* lines 81-111: the popped node is the goal; the path is rebuilt and returned
APopGoal ==
    /\ apc = "loop" /\ openSet # <<>>
    /\ ~closedSet[openSet[1]]
    /\ openSet[1] = goal
    /\ PopEffect
    /\ closedSet' = [closedSet EXCEPT ![openSet[1]] = TRUE]
    /\ path' = Reverse(Backtrack(parent, goal))
    /\ apc' = "done"
    /\ UNCHANGED <<grid, start, goal, gCost, fCost, parent, ai, expanded, dvars>>

\* lines 81-114: the popped node is closed and its neighbours are about to be explored
APopExpand ==
    /\ apc = "loop" /\ openSet # <<>>
    /\ ~closedSet[openSet[1]]
    /\ openSet[1] # goal
    /\ PopEffect
    /\ closedSet' = [closedSet EXCEPT ![openSet[1]] = TRUE]
    /\ ai' = 0
    /\ expanded' = expanded + 1
    /\ apc' = "neighbors"
    /\ UNCHANGED <<grid, start, goal, gCost, fCost, parent, path, dvars>>

\* mutant of ANeighbor: the test of line 120 is dropped, closed neighbours are relaxed too
ANeighborIgnoresClosed ==
    /\ apc = "neighbors"
    /\ LET nr == current[1] + dRow[ai + 1]
           nc == current[2] + dCol[ai + 1]
           neighbor == <<nr, nc>>
           tentativeGCost == gCost[current] + 1
       IN IF /\ isValid(nr, nc, Rows, Cols)
             /\ grid[neighbor] # 1
             /\ (tentativeGCost < gCost[neighbor] \/ parent[neighbor] = NULL)
          THEN /\ gCost' = [gCost EXCEPT ![neighbor] = tentativeGCost]
               /\ fCost' = [fCost EXCEPT ![neighbor] =
                               tentativeGCost + heuristicManhattan(nr, nc, goal[1], goal[2])]
               /\ parent' = [parent EXCEPT ![neighbor] = current]
               /\ openSet' = HeapPush(fCost', openSet, neighbor)
          ELSE UNCHANGED <<gCost, fCost, parent, openSet>>
    /\ ai' = ai + 1
    /\ apc' = IF ai = 3 THEN "loop" ELSE "neighbors"
    /\ UNCHANGED <<grid, start, goal, closedSet, current, path, popLog, expanded, dvars>>

\* mutant of ANeighbor: the test of line 125 also accepts an equal cost
ANeighborRelaxOnEqual ==
    /\ apc = "neighbors"
    /\ LET nr == current[1] + dRow[ai + 1]
           nc == current[2] + dCol[ai + 1]
           neighbor == <<nr, nc>>
           tentativeGCost == gCost[current] + 1
       IN IF /\ isValid(nr, nc, Rows, Cols)
             /\ grid[neighbor] # 1
             /\ ~closedSet[neighbor]
             /\ (tentativeGCost <= gCost[neighbor] \/ parent[neighbor] = NULL)
          THEN /\ gCost' = [gCost EXCEPT ![neighbor] = tentativeGCost]
               /\ fCost' = [fCost EXCEPT ![neighbor] =
                               tentativeGCost + heuristicManhattan(nr, nc, goal[1], goal[2])]
               /\ parent' = [parent EXCEPT ![neighbor] = current]
               /\ openSet' = HeapPush(fCost', openSet, neighbor)
          ELSE UNCHANGED <<gCost, fCost, parent, openSet>>
    /\ ai' = ai + 1
    /\ apc' = IF ai = 3 THEN "loop" ELSE "neighbors"
    /\ UNCHANGED <<grid, start, goal, closedSet, current, path, popLog, expanded, dvars>>

\* lines 114-132: one direction i of the for loop
ANeighbor ==
    /\ apc = "neighbors"
    /\ LET nr == current[1] + dRow[ai + 1]
           nc == current[2] + dCol[ai + 1]
           neighbor == <<nr, nc>>
           tentativeGCost == gCost[current] + 1
       IN IF /\ isValid(nr, nc, Rows, Cols)
             /\ grid[neighbor] # 1
             /\ ~closedSet[neighbor]
             /\ (tentativeGCost < gCost[neighbor] \/ parent[neighbor] = NULL)
          THEN /\ gCost' = [gCost EXCEPT ![neighbor] = tentativeGCost]
               /\ fCost' = [fCost EXCEPT ![neighbor] =
                               tentativeGCost + heuristicManhattan(nr, nc, goal[1], goal[2])]
               /\ parent' = [parent EXCEPT ![neighbor] = current]
               /\ openSet' = HeapPush(fCost', openSet, neighbor)
          ELSE UNCHANGED <<gCost, fCost, parent, openSet>>
    /\ ai' = ai + 1
    /\ apc' = IF ai = 3 THEN "loop" ELSE "neighbors"
    /\ UNCHANGED <<grid, start, goal, closedSet, current, path, popLog, expanded, dvars>>

\* lines 81, 135-143: openSet is empty, the empty path is returned
AReturnEmpty ==
    /\ apc = "loop" /\ openSet = <<>>
    /\ path' = <<>>
    /\ apc' = "done"
    /\ UNCHANGED <<grid, start, goal, gCost, fCost, parent, closedSet, openSet,
                   current, ai, popLog, expanded, dvars>>

ANext == AStart \/ APopSkip \/ APopGoal \/ APopExpand \/ ANeighbor \/ AReturnEmpty

AStarSpec == AInit /\ [][ANext]_vars

\* aStarSearch is one synchronous call: while a step of its body is possible, one is taken
AStarLive == AInit /\ [][ANext]_vars /\ WF_vars(ANext)

(***************************************************************************)
(* Reference notions the claims are stated against.                        *)
(***************************************************************************)
\* A path weight is <<0, k>> (the number k <= INT_MAX), <<1, 0>> (a sum above
\* INT_MAX) or <<2, 0>> (no path).
RefNone == <<2, 0>>
RefOver == <<1, 0>>
RefLess(a, b) == a[1] < b[1] \/ (a[1] = b[1] /\ a[2] < b[2])
RefAdd(a, w) ==
    IF a[1] # 0 THEN a
    ELSE IF w > INF - a[2] THEN RefOver
    ELSE <<0, a[2] + w>>
RefMin(S) == CHOOSE m \in S : \A x \in S : ~RefLess(x, m)

NonNegative(g) == \A u \in DOMAIN g : \A i \in 1..Len(g[u]) : g[u][i][2] >= 0

\* One round of relaxing every edge, on exact path weights
RefRound(g, d) ==
    [v \in DOMAIN g |->
        RefMin({d[v]} \cup {RefAdd(d[u], g[u][i][2]) :
                               <<u, i>> \in {<<x, j>> \in (DOMAIN g) \X (1..MaxEdges * 4) :
                                               j <= Len(g[x]) /\ g[x][j][1] = v}})]
RECURSIVE RefIterate(_, _, _)
RefIterate(g, d, k) == IF k = 0 THEN d ELSE RefIterate(g, RefRound(g, d), k - 1)

\* The minimum over all directed paths s -> v of the sum of the weights (g non-negative)
TrueDist(g, s) ==
    RefIterate(g, [v \in DOMAIN g |-> IF v = s THEN <<0, 0>> ELSE RefNone],
               Cardinality(DOMAIN g))

\* The table holds exactly the true distances, INF for the unreachable
HoldsTrueDist(d, g, s) ==
    LET t == TrueDist(g, s)
    IN \A v \in DOMAIN g :
          IF t[v] = RefNone THEN d[v] = INF
          ELSE t[v][1] = 0 /\ d[v] = t[v][2]

\* No edge out of a vertex reachable from s extends a shortest path beyond INT_MAX
NoOverflow(g, s) ==
    LET t == TrueDist(g, s)
    IN \A u \in DOMAIN g : \A i \in 1..Len(g[u]) :
          t[u] # RefNone => (t[u][1] = 0 /\ RefAdd(t[u], g[u][i][2]) # RefOver)

Adjacent(a, b) == Abs(a[1] - b[1]) + Abs(a[2] - b[2]) = 1

\* Breadth-first search: the number of steps of a shortest 4-connected walkable
\* path from the frontier's origin to target, -1 when there is none
RECURSIVE BfsLevels(_, _, _, _, _)
BfsLevels(g, frontier, seen, target, d) ==
    IF target \in frontier THEN d
    ELSE IF frontier = {} THEN -1
    ELSE LET nxt == {c \in DOMAIN g : /\ g[c] = 0
                                      /\ c \notin seen
                                      /\ \E b \in frontier : Adjacent(b, c)}
         IN BfsLevels(g, nxt, seen \cup nxt, target, d + 1)
BfsDist(g, s, t) == BfsLevels(g, {s}, {s}, t, 0)

ValidAStarInput == grid # <<>> /\ grid[start] = 0 /\ grid[goal] = 0
Returned == apc = "done"

(***************************************************************************)
(* Claims.                                                                 *)
(***************************************************************************)

\* C1: for every graph with non-negative weights and every source, the returned
\* table holds for each reachable v exactly the minimum over all paths
\* source -> v of the sum of the weights, and INF for each unreachable v.
C1_AllNonNegativeGraphs ==
    (dpc = "done" /\ NonNegative(graph)) => HoldsTrueDist(dist, graph, source)

\* Supporting check (not the claim C1): the table is exact on the graphs with
\* non-negative weights in which no edge out of a reachable vertex extends a
\* shortest path beyond INT_MAX; on the sample input of main it is [0, 4, 2, 6, 7].
ExactWithoutOverflow ==
    (dpc = "done" /\ NonNegative(graph) /\ NoOverflow(graph, source)) =>
        /\ HoldsTrueDist(dist, graph, source)
        /\ graph = SampleGraph => dist = [v \in 0..4 |-> <<0, 4, 2, 6, 7>>[v + 1]]

\* A returned table in which a vertex got, through another vertex, a distance
\* smaller than the weight of its direct edge from the source.
ExactWithoutOverflow_Witness ==
    /\ dpc = "done" /\ NonNegative(graph) /\ NoOverflow(graph, source)
    /\ \E v \in DOMAIN graph \ {source} :
          /\ \E i \in 1..Len(graph[source]) : graph[source][i][1] = v
          /\ \A i \in 1..Len(graph[source]) :
                graph[source][i][1] = v => dist[v] < graph[source][i][2]
          /\ dist[v] > 0

\* C2: if aStarSearch returns a non-empty sequence for walkable start and goal,
\* its length minus one is the length of a shortest 4-connected walkable path
\* from start to goal, as breadth-first search computes it.
C2_ShortestPath ==
    (Returned /\ ValidAStarInput /\ path # <<>>) =>
        Len(path) - 1 = BfsDist(grid, start, goal)

\* C3: a returned non-empty sequence starts at start, ends at goal, consists of
\* in-bounds walkable cells, and consecutive cells are one orthogonal step apart.
C3_PathWellFormed ==
    (Returned /\ ValidAStarInput /\ path # <<>>) =>
        /\ path[1] = start
        /\ path[Len(path)] = goal
        /\ \A i \in 1..Len(path) :
              isValid(path[i][1], path[i][2], Rows, Cols) /\ grid[path[i]] = 0
        /\ \A i \in 1..(Len(path) - 1) :
              Abs(path[i][1] - path[i + 1][1]) + Abs(path[i][2] - path[i + 1][2]) = 1

\* C3 witness: a returned path of at least five cells that had to go round an obstacle.
C3_Witness ==
    /\ Returned /\ ValidAStarInput
    /\ Len(path) >= 5
    /\ Len(path) - 1 > heuristicManhattan(start[1], start[2], goal[1], goal[2])

\* C4: the empty sequence is returned exactly when openSet ran empty without the
\* goal having been extracted, and that happens exactly when no 4-connected
\* walkable path joins start to goal.
C4_EmptyIffNoPath ==
    (Returned /\ ValidAStarInput) =>
        /\ (path = <<>>) <=> (openSet = <<>> /\ ~closedSet[goal])
        /\ (path = <<>>) <=> (BfsDist(grid, start, goal) = -1)

\* C4 witness: the empty sequence returned after a search that expanded
\* several cells and never met the goal.
C4_Witness ==
    /\ Returned /\ ValidAStarInput
    /\ path = <<>>
    /\ expanded >= 3

\* C5: with start or goal on a blocked cell the search fails before any search
\* step: nothing is pushed or expanded and the call never returns a sequence.
C5_InvalidInputRejected ==
    (apc # "idle" /\ (grid[start] = 1 \/ grid[goal] = 1)) =>
        (openSet = <<>> /\ expanded = 0 /\ ~Returned)

\* C6: with a negative edge weight no partial computation occurs: no distance is
\* written, nothing enters the frontier and no table is returned.
C6_InvalidInputRejected ==
    (dpc # "idle" /\ ~NonNegative(graph)) =>
        (dist = <<>> /\ pq = <<>> /\ dpc # "done")

\* C7: with start = goal = c, a walkable cell, the sequence <<c>> is returned
\* and no neighbour is expanded.
C7_StartIsGoal ==
    (Returned /\ ValidAStarInput /\ start = goal) =>
        (path = <<start>> /\ expanded = 0)

\* C7 witness: a call with start = goal on a walkable cell has returned.
C7_Witness == Returned /\ ValidAStarInput /\ start = goal

\* The edges of g in the order of the vertices: position of the i-th edge of u
RECURSIVE EdgesBefore(_, _)
EdgesBefore(g, u) == IF u = 0 THEN 0 ELSE EdgesBefore(g, u - 1) + Len(g[u - 1])
EdgeCount(g) == EdgesBefore(g, Cardinality(DOMAIN g))
WithWeights(g, r) ==
    [u \in DOMAIN g |->
        [i \in 1..Len(g[u]) |-> <<g[u][i][1], r[EdgesBefore(g, u) + i]>>]]
WeightVector(g) ==
    [k \in 1..EdgeCount(g) |->
        LET u == CHOOSE x \in DOMAIN g :
                    EdgesBefore(g, x) < k /\ k <= EdgesBefore(g, x) + Len(g[x])
        IN g[u][k - EdgesBefore(g, u)][2]]

\* The graphs on the nodes and edges of g whose weights are all >= those of g
\* (every such graph when g has at most MaxEdges edges, else those that raise
\* one edge).
GraphsAbove(g) ==
    LET w == WeightVector(g)
        m == EdgeCount(g)
        targets == {x \in Weights : x >= 0} \cup {w[k] : k \in 1..m}
        raised == IF m <= MaxEdges
                  THEN {x \in [1..m -> targets] : \A k \in 1..m : x[k] >= w[k]}
                  ELSE {[w EXCEPT ![k] = x] : <<k, x>> \in {y \in (1..m) \X targets : y[2] >= w[y[1]]}}
    IN {WithWeights(g, r) : r \in raised}

\* C8: for non-negative G and G' on the same nodes and edges with every
\* weight of G' >= that of G, every entry of dijkstra(n, G', source) is >= the
\* entry of dijkstra(n, G, source).
C8_AllNonNegativeGraphs ==
    (dpc = "done" /\ NonNegative(graph)) =>
        \A g2 \in GraphsAbove(graph) :
            \A v \in DOMAIN graph : dijkstra(n, g2, source)[v] >= dist[v]

\* Supporting check (not the claim C8): the same, for the G' in which no edge
\* out of a reachable vertex extends a shortest path beyond INT_MAX.
MonotoneWithoutOverflow ==
    (dpc = "done" /\ NonNegative(graph)) =>
        \A g2 \in GraphsAbove(graph) :
            NoOverflow(g2, source) =>
                \A v \in DOMAIN graph : dijkstra(n, g2, source)[v] >= dist[v]

\* A returned table and a G' above the graph, without overflow, whose table is
\* strictly larger at some vertex.
MonotoneWithoutOverflow_Witness ==
    /\ dpc = "done" /\ NonNegative(graph)
    /\ \E g2 \in GraphsAbove(graph) :
          /\ NoOverflow(g2, source)
          /\ \E v \in DOMAIN graph :
                dijkstra(n, g2, source)[v] > dist[v] /\ dijkstra(n, g2, source)[v] < INF

\* C9: dist[source] = 0 in every state of the loop after initialisation and in
\* the returned table, for every graph and every source in [0, n).
C9_SourceIsZero ==
    dpc \in {"loop", "edges", "done"} => dist[source] = 0

\* C10: at each pop the fCost of the popped node is <= the fCost of every
\* entry still in openSet.
C10_PopsSmallest ==
    (ValidAStarInput /\ popLog # <<>>) => popLog[1] <= popLog[2]

\* C11: whatever the order in which entries of equal fCost are extracted, the
\* search returns a path of the shortest length when a 4-connected walkable
\* path exists and the empty sequence when none does; stated for the order the
\* heap under openSet gives, on the runs that extracted an entry while another
\* of the same fCost was enqueued.
C11_TieOrderOptimal ==
    (Returned /\ ValidAStarInput /\ popLog # <<>> /\ popLog[3] > 0) =>
        IF BfsDist(grid, start, goal) = -1
        THEN path = <<>>
        ELSE Len(path) = BfsDist(grid, start, goal) + 1

\* The vertices of dexp are pairwise different, and no vertex expanded in an
\* earlier iteration changes its distance in this step
ExpandedOnceStep ==
    /\ \A i, j \in 1..Len(dexp') : i < j => dexp'[i] # dexp'[j]
    /\ \A i \in 1..Len(dexp) :
          (dpc = "edges" /\ dexp[i] = du) \/ dist'[dexp[i]] = dist[dexp[i]]

\* C12: for every graph with non-negative weights, no vertex is expanded in
\* two iterations of the loop, and after the iteration that expanded it its
\* dist entry never changes again.
C12_NeverReExpanded ==
    [][NonNegative(graph) => ExpandedOnceStep]_vars

\* Supporting check (not the claim C12): the same on the graphs in which no edge
\* out of a reachable vertex extends a shortest path beyond INT_MAX.
ExpandedOnceWithoutOverflow ==
    [][(NonNegative(graph) /\ NoOverflow(graph, source)) => ExpandedOnceStep]_vars

\* C13: when the extracted entry (cost, u) has cost > dist[u], the iteration
\* only removes that entry: no edge is relaxed, no dist entry changes, nothing
\* is inserted into the frontier, and the loop goes on to its next iteration.
C13_StaleDiscarded ==
    [][(dpc = "loop" /\ pq # <<>> /\ Head(pq)[1] > dist[Head(pq)[2]]) =>
          /\ pq' = Tail(pq)
          /\ dist' = dist
          /\ dexp' = dexp
          /\ dpc' = "loop"]_vars

\* C13 witness: a stale entry has been discarded while other entries were
\* waiting, and the search went on to expand a vertex after it.
C13_Witness ==
    /\ dstale >= 1
    /\ dpc = "edges"
    /\ pq # <<>>

\* The number of entries of the heap array h that point to cell c
Count(h, c) == Cardinality({i \in 1..Len(h) : h[i] = c})

\* C14: relaxing an in-bounds, walkable, not-closed neighbour v of the current
\* cell with candidate = gCost(current) + 1 sets gCost(v) and parent(v) and
\* inserts v into openSet with key candidate + Manhattan(v, goal) if and only
\* if parent(v) is null or candidate < gCost(v), and otherwise leaves gCost,
\* parent and openSet unchanged; the gCost of a discovered cell never increases.
C14_RelaxIff ==
    [][apc = "neighbors" =>
          LET nr == current[1] + dRow[ai + 1]
              nc == current[2] + dCol[ai + 1]
              v == <<nr, nc>>
              candidate == gCost[current] + 1
          IN /\ (isValid(nr, nc, Rows, Cols) /\ grid[v] # 1 /\ ~closedSet[v]) =>
                   IF parent[v] = NULL \/ candidate < gCost[v]
                   THEN /\ gCost'[v] = candidate
                        /\ parent'[v] = current
                        /\ fCost'[v] = candidate + heuristicManhattan(nr, nc, goal[1], goal[2])
                        /\ \A c \in Cells :
                              Count(openSet', c) = Count(openSet, c) + (IF c = v THEN 1 ELSE 0)
                        /\ \A c \in Cells \ {v} : gCost'[c] = gCost[c] /\ parent'[c] = parent[c]
                   ELSE gCost' = gCost /\ parent' = parent /\ openSet' = openSet
             /\ \A c \in Cells : parent[c] # NULL => gCost'[c] <= gCost[c]]_vars

\* C14 witness: a cell is in openSet twice (it was relaxed again with a
\* strictly smaller candidate), next to a discovered cell that was left alone.
C14_Witness ==
    /\ apc = "neighbors"
    /\ \E i, j \in 1..Len(openSet) : i < j /\ openSet[i] = openSet[j]
    /\ \E k \in 1..4 :
          LET v == <<current[1] + dRow[k], current[2] + dCol[k]>>
          IN /\ k <= ai
             /\ isValid(v[1], v[2], Rows, Cols)
             /\ grid[v] # 1 /\ ~closedSet[v]
             /\ parent[v] # NULL /\ parent[v] # current

\* C15: an extracted entry whose cell is already closed is discarded without
\* relaxing any neighbour; a closed cell stays closed and its gCost and parent
\* are never modified again; the cell whose expansion starts was not closed
\* before, so a cell is expanded at most once.
C15_ExpandedOnce ==
    [][/\ (apc = "loop" /\ openSet # <<>> /\ closedSet[openSet[1]]) =>
             /\ apc' = "loop"
             /\ Len(openSet') = Len(openSet) - 1
             /\ UNCHANGED <<gCost, fCost, parent, closedSet, expanded>>
       /\ closedSet # <<>> =>
             \A c \in Cells :
                closedSet[c] =>
                   closedSet'[c] /\ gCost'[c] = gCost[c] /\ parent'[c] = parent[c]
       /\ expanded' # expanded =>
             ~closedSet[current'] /\ closedSet'[current']]_vars

\* C15 witness: an entry of a closed cell has been discarded and the search
\* went on to expand another cell.
C15_Witness ==
    /\ popLog # <<>> /\ popLog[4] >= 1
    /\ apc = "neighbors"
    /\ Cardinality({c \in Cells : closedSet[c]}) >= 3

\* C16: for walkable start and goal, every closed cell u carries as gCost the
\* number of steps of a shortest 4-connected walkable path from start to u
\* (gCost does not change after u is closed, so this is its value at closing).
C16_ClosedIsOptimal ==
    (ValidAStarInput /\ closedSet # <<>>) =>
        \A u \in Cells : closedSet[u] => gCost[u] = BfsDist(grid, start, u)

\* Every vertex that has a distance has had its edges relaxed, and no edge out
\* of such a vertex can lower a distance any more: the table is final
Settled ==
    /\ \A u \in DOMAIN dist : dist[u] < INF => \E i \in 1..Len(dexp) : dexp[i] = u
    /\ \A u \in DOMAIN dist : \A i \in 1..Len(graph[u]) :
          dist[u] < INF => ~(AddInt(dist[u], graph[u][i][2]) < dist[graph[u][i][1]])

InsertionStep ==
    Len(openSet') > Len(openSet) =>
        \E v \in Cells :
            /\ \A c \in Cells : Count(openSet', c) = Count(openSet, c) + (IF c = v THEN 1 ELSE 0)
            /\ closedSet # <<>> => ~closedSet[v]
            /\ (parent # <<>> /\ (parent[v] # NULL \/ v = start)) => gCost'[v] < gCost[v]

\* C18: for every grid and every in-bounds start and goal, aStarSearch
\* terminates, either with the goal extracted and a path returned or with
\* openSet empty and the empty sequence returned; a cell is re-inserted into
\* openSet only on a strict decrease of its gCost and never after it is closed.
C18_Terminates ==
    /\ (apc = "entry") ~>
          /\ Returned
          /\ \/ closedSet[goal] /\ current = goal /\ path # <<>>
             \/ openSet = <<>> /\ ~closedSet[goal] /\ path = <<>>
    /\ [][InsertionStep]_vars

\* C18 witness: a search has returned after a cell was inserted a second time
\* and an entry of a closed cell was discarded.
C18_Witness ==
    /\ Returned
    /\ popLog # <<>> /\ popLog[4] >= 1
    /\ expanded >= 8

\* The number of parent links from cell v to a cell without parent, -1 when
\* more than k links are followed (a cycle)
RECURSIVE ParentSteps(_, _, _)
ParentSteps(par, v, k) ==
    IF par[v] = NULL THEN 0
    ELSE IF k = 0 THEN -1
    ELSE LET r == ParentSteps(par, par[v], k - 1)
         IN IF r = -1 THEN -1 ELSE r + 1

\* The parent of every discovered cell is a closed cell one orthogonal step
\* away with a gCost one smaller, the start has no parent, the parent links
\* lead from a discovered cell to the start in gCost steps, and a returned
\* path has gCost(goal) + 1 cells
ParentLinks ==
    parent # <<>> =>
        /\ parent[start] = NULL
        /\ \A v \in Cells :
              parent[v] # NULL =>
                 /\ closedSet[parent[v]]
                 /\ Adjacent(parent[v], v)
                 /\ gCost[v] = gCost[parent[v]] + 1
                 /\ ParentSteps(parent, v, Rows * Cols) = gCost[v]
                 /\ Backtrack(parent, v)[gCost[v] + 1] = start
        /\ (Returned /\ path # <<>>) => Len(path) = gCost[goal] + 1

\* C19: in every reachable state the parent of every cell that has one is a
\* closed, walkable, orthogonally adjacent cell with gCost(v) = gCost(parent(v)) + 1,
\* the start has a null parent, the parent links from a discovered cell end at
\* the start after gCost(v) steps, and the returned sequence has gCost(goal) + 1 cells.
C19_ParentInvariant ==
    /\ ParentLinks
    /\ parent # <<>> => \A v \in Cells : parent[v] # NULL => grid[parent[v]] = 0

\* Supporting check (not the claim C19): the same for walkable start and goal.
ParentInvariantValidInput ==
    ValidAStarInput => C19_ParentInvariant

\* Every entry (d, u) of the frontier has dist[u] <= d < INF; every vertex
\* that has a distance and was not expanded yet has the entry (dist[u], u);
\* no expanded vertex is at INF, and the vertex whose edges are being relaxed
\* is not at INF
FrontierInv ==
    /\ \A i \in 1..Len(pq) : dist[pq[i][2]] <= pq[i][1] /\ pq[i][1] < INF
    /\ \A u \in DOMAIN dist :
          (dist[u] < INF /\ \A i \in 1..Len(dexp) : dexp[i] # u) =>
              \E i \in 1..Len(pq) : pq[i] = <<dist[u], u>>
    /\ \A i \in 1..Len(dexp) : dist[dexp[i]] < INF
    /\ dpc = "edges" => dist[du] < INF

\* The extracted entry (d, u) is expanded exactly when d = dist[u]
ExpandsCurrentEntry ==
    (dpc = "loop" /\ pq # <<>>) =>
        (dexp' = Append(dexp, Head(pq)[2])) <=> (Head(pq)[1] = dist[Head(pq)[2]])

\* C20: for graphs with non-negative weights, every frontier entry (d, u) has
\* dist[u] <= d < INF, every vertex whose dist was lowered and that was not yet
\* expanded has the entry (dist[u], u) in the frontier, an entry is expanded
\* exactly when d = dist[u], no vertex at INF is expanded, and dist[u] + weight
\* is never computed with dist[u] = INF.
C20_FrontierInvariant ==
    /\ []((NonNegative(graph) /\ dist # <<>>) => FrontierInv)
    /\ [][(NonNegative(graph) /\ dist # <<>>) => ExpandsCurrentEntry]_vars

\* C20 witness: while the edges of a vertex are relaxed the frontier holds,
\* for one vertex, its current entry and a stale one.
C20_Witness ==
    /\ NonNegative(graph) /\ dpc = "edges"
    /\ \E i, j \in 1..Len(pq) :
          /\ pq[i][2] = pq[j][2]
          /\ pq[i][1] = dist[pq[i][2]]
          /\ pq[j][1] > dist[pq[j][2]]

====
